---- MODULE Spec2Model ----
(***************************************************************************)
(* A state-machine model of the persona affect engine:                     *)
(*   persona/hormone_adjuster.py  sentiment analysis, hormone adjustment,  *)
(*                                mood inference                           *)
(*   persona/mood_tracker.py      mood snapshot and bounded mood history   *)
(*                                                                         *)
(* Numbers are fixed point.  A hormone level is an integer number of       *)
(* 1e-7 (ONE = 1.0); a hormone delta and a mood weight keep the decimals   *)
(* the source writes (hundredths, tenths); a sentiment intensity is a      *)
(* number of 1e-5; a mood score is a number of 1e-8 (weight in tenths      *)
(* times level); a mood intensity is a number of 5e-9, so that the mean    *)
(* of two scores is an integer.  The rounding of binary floating point     *)
(* (2^-53 relative) is below this resolution and is not modelled.          *)
(* Text, mood labels and reasons are sequences of one-character strings,   *)
(* so that lower(), strip(), split(), the substring test and string        *)
(* concatenation are computed and not assumed.                             *)
(***************************************************************************)
EXTENDS Integers, Sequences, FiniteSets, TLC

VARIABLES
    hormonesFile,   \* persona/hormones.json: [exists, levels]
    weightsFile,    \* persona/mood_weights.json: [exists, table]
    moodFile,       \* persona/mood_adjustments.json: [exists, data]
    historyFile,    \* persona/mood_history.json: [exists, entries]
    clock,          \* datetime.utcnow(), counted in readings
    calls,          \* public operations completed so far
    appended,       \* every history entry ever appended, in append order
    last,           \* the last operation: its name, input, and what it returned
    procs,          \* the concurrent callers: position, input and locals of each
    arg,            \* the input of a pure function under check
    res             \* what the pure function returned for arg

vars == <<hormonesFile, weightsFile, moodFile, historyFile, clock, calls,
          appended, last, procs, arg, res>>

(***************************************************************************)
(* Fixed-point units                                                       *)
(***************************************************************************)
\* 1.0 as a hormone level (levels count 1e-7)
ONE == 10^7
\* 1.0 as a sentiment intensity (intensities of a text count 1e-5)
IntensityOne == 10^5
\* 1.0 as a mood score (scores count 1e-8)
ScoreOne == 10 * ONE
\* 1.0 as a mood intensity (mood intensities count 5e-9)
MoodOne == 2 * ScoreOne

Min(a, b) == IF a <= b THEN a ELSE b
Max(a, b) == IF a >= b THEN a ELSE b
Abs(a) == IF a < 0 THEN -a ELSE a

HormoneNames == {"dopamine", "serotonin", "cortisol", "oxytocin"}

\* _DEFAULT_HORMONES
DEFAULT_HORMONES == [dopamine |-> ONE \div 2, serotonin |-> ONE \div 2,
                     cortisol |-> ONE \div 2, oxytocin |-> ONE \div 2]

(***************************************************************************)
(* Text: str methods the analysis uses                                     *)
(***************************************************************************)
UpperChars == <<"A","B","C","D","E","F","G","H","I","J","K","L","M","N","O","P","Q","R","S","T","U","V","W","X","Y","Z">>
LowerChars == <<"a","b","c","d","e","f","g","h","i","j","k","l","m","n","o","p","q","r","s","t","u","v","w","x","y","z">>

IsSpace(c) == c \in {" ", "\t", "\n"}
IsUpperChar(c) == \E i \in 1..26 : UpperChars[i] = c
IsLowerChar(c) == \E i \in 1..26 : LowerChars[i] = c

\* str.lower() of one character
LowerChar(c) ==
    IF IsUpperChar(c)
    THEN LowerChars[CHOOSE i \in 1..26 : UpperChars[i] = c]
    ELSE c

\* str.lower()
Lower(s) == [i \in 1..Len(s) |-> LowerChar(s[i])]

\* str.strip(): leading and trailing whitespace removed
Strip(s) ==
    LET keep == {i \in 1..Len(s) : ~IsSpace(s[i])}
    IN  IF keep = {} THEN << >>
        ELSE LET lo == CHOOSE i \in keep : \A j \in keep : i <= j
                 hi == CHOOSE i \in keep : \A j \in keep : i >= j
             IN  SubSeq(s, lo, hi)

\* pattern in text
Contains(s, pat) ==
    \E i \in 0..(Len(s) - Len(pat)) :
        \A j \in 1..Len(pat) : s[i + j] = pat[j]

\* str.count(c) for a one-character c
CountChar(s, c) == Cardinality({i \in 1..Len(s) : s[i] = c})

\* str.isupper(): at least one cased character and no lowercase one
IsUpper(s) ==
    /\ \E i \in 1..Len(s) : IsUpperChar(s[i])
    /\ \A i \in 1..Len(s) : ~IsLowerChar(s[i])

\* str.split(): the maximal runs of non-whitespace characters, in order
RECURSIVE SplitFrom(_, _)
SplitFrom(s, i) ==
    IF i > Len(s) THEN << >>
    ELSE IF IsSpace(s[i]) THEN SplitFrom(s, i + 1)
    ELSE LET ends == {j \in i..Len(s) : j = Len(s) \/ IsSpace(s[j + 1])}
             e == CHOOSE j \in ends : \A k \in ends : j <= k
         IN  <<SubSeq(s, i, e)>> \o SplitFrom(s, e + 1)

Split(s) == SplitFrom(s, 1)

SeqRange(q) == {q[i] : i \in 1..Len(q)}

(***************************************************************************)
(* Sentiment analyzer                                                      *)
(***************************************************************************)
\* _EMOTION_PATTERNS, in dict order; hormone deltas in hundredths, base
\* intensity in tenths
EMOTION_PATTERNS == <<
    [emotion_type |-> "strong_negative",
     patterns |-> <<<<" ","y","o","u">>, <<"y","o","u"," ","s","u","c","k">>, <<"t","e","r","r","i","b","l","e">>, <<"a","w","f","u","l">>, <<"w","o","r","s","t">>,
                    <<"y","o","u","'","r","e"," ","t","e","r","r","i","b","l","e">>, <<"y","o","u","'","r","e"," ","a","w","f","u","l">>>>,
     hormones |-> [cortisol |-> 15, serotonin |-> -10, dopamine |-> -5],
     base_intensity |-> 8],
    [emotion_type |-> "strong_positive",
     patterns |-> <<<<"l","o","v","e"," ","y","o","u">>, <<"i"," ","l","o","v","e"," ","y","o","u">>, <<"a","m","a","z","i","n","g">>, <<"w","o","n","d","e","r","f","u","l">>,
                    <<"f","a","n","t","a","s","t","i","c">>, <<"b","e","s","t"," ","e","v","e","r">>, <<"y","o","u","'","r","e"," ","a","m","a","z","i","n","g">>,
                    <<"y","o","u","'","r","e"," ","w","o","n","d","e","r","f","u","l">>>>,
     hormones |-> [dopamine |-> 15, serotonin |-> 10, oxytocin |-> 10],
     base_intensity |-> 8],
    [emotion_type |-> "moderate_negative",
     patterns |-> <<<<"y","o","u"," ","a","r","e"," ","b","a","d">>, <<"b","a","d">>, <<"n","o","t"," ","g","o","o","d">>, <<"d","i","s","a","p","p","o","i","n","t","e","d">>,
                    <<"a","n","n","o","y","e","d">>, <<"s","t","u","p","i","d">>, <<"f","o","o","l","i","s","h">>>>,
     hormones |-> [cortisol |-> 8, serotonin |-> -5],
     base_intensity |-> 6],
    [emotion_type |-> "moderate_positive",
     patterns |-> <<<<"g","o","o","d">>, <<"n","i","c","e">>, <<"l","i","k","e"," ","i","t">>, <<"t","h","a","n","k","s">>, <<"g","r","e","a","t">>,
                    <<"t","h","a","n","k"," ","y","o","u">>>>,
     hormones |-> [dopamine |-> 8, serotonin |-> 5],
     base_intensity |-> 6],
    [emotion_type |-> "affectionate",
     patterns |-> <<<<"k","i","s","s">>, <<"i"," ","k","i","s","s"," ","y","o","u">>, <<"h","u","g">>, <<"c","u","d","d","l","e">>, <<"h","o","l","d"," ","y","o","u">>,
                    <<"m","i","s","s"," ","y","o","u">>, <<"k","i","s","s"," ","y","o","u">>>>,
     hormones |-> [oxytocin |-> 12, dopamine |-> 6],
     base_intensity |-> 7],
    [emotion_type |-> "playful",
     patterns |-> <<<<"l","e","t","s"," ","g","o">>, <<"l","e","t","'","s"," ","g","o">>, <<"r","i","d","e">>, <<"p","l","a","y">>, <<"f","u","n">>,
                    <<"a","d","v","e","n","t","u","r","e">>, <<"e","x","p","l","o","r","e">>, <<"l","e","t","s"," ","g","o"," ","f","o","r"," ","a"," ","r","i","d","e">>>>,
     hormones |-> [dopamine |-> 10, oxytocin |-> 5],
     base_intensity |-> 6],
    [emotion_type |-> "offensive",
     patterns |-> <<<<"d","i","r","t","y">>, <<"n","a","s","t","y">>, <<"d","i","s","g","u","s","t","i","n","g">>, <<"g","r","o","s","s">>>>,
     hormones |-> [cortisol |-> 10, serotonin |-> -8],
     base_intensity |-> 7] >>

profanity_words == <<<<"f","u","c","k">>, <<"s","h","i","t">>, <<"d","a","m","n">>, <<"h","e","l","l">>>>

\* calculate_contextual_intensity: the multipliers compose by multiplication.
\* Each factor is in tenths (repetition in hundredths), so the product counts
\* 1e-6.  A product below 1.0 has at most two of the three tenths factors
\* above 1 (0.6 * 1.1 * 1.2 * 1.3 > 1), hence is a multiple of 1e-5, and the
\* division by 10 is exact.
calculate_contextual_intensity(text, base_intensity) ==
    LET text_lower == Lower(text)
        exclamation_count == CountChar(text, "!")
        exclaim == IF exclamation_count > 0
                   THEN 10 + Min(exclamation_count, 3) ELSE 10
        caps == IF IsUpper(text) /\ Len(text) > 3 THEN 12 ELSE 10
        profane == IF \E k \in 1..Len(profanity_words) :
                          Contains(text_lower, profanity_words[k])
                   THEN 13 ELSE 10
        words == Split(text_lower)
        repeat == IF Len(words) > 1
                     /\ 10 * Cardinality(SeqRange(words)) < 7 * Len(words)
                  THEN 115 ELSE 100
    IN  Min(10 * IntensityOne,
            base_intensity * exclaim * caps * profane * repeat) \div 10

positive_words == {
    <<"g","o","o","d">>, <<"g","r","e","a","t">>, <<"a","w","e","s","o","m","e">>, <<"h","a","p","p","y">>, <<"l","o","v","e">>, <<"e","x","c","e","l","l","e","n","t">>,
    <<"w","o","n","d","e","r","f","u","l">>, <<"a","m","a","z","i","n","g">>, <<"f","a","n","t","a","s","t","i","c">>, <<"b","r","i","l","l","i","a","n","t">>, <<"p","e","r","f","e","c","t">>,
    <<"b","e","a","u","t","i","f","u","l">>, <<"n","i","c","e">>, <<"e","n","j","o","y">>, <<"l","i","k","e">>, <<"f","u","n">>, <<"e","x","c","i","t","i","n","g">>, <<"y","e","s">>,
    <<"t","h","a","n","k">>, <<"t","h","a","n","k","s">>, <<"s","w","e","e","t">>, <<"c","o","o","l">>, <<"b","e","s","t">>, <<"s","u","p","e","r">>, <<"f","i","n","e">>}

negative_words == {
    <<"b","a","d">>, <<"t","e","r","r","i","b","l","e">>, <<"s","a","d">>, <<"h","a","t","e">>, <<"a","w","f","u","l">>, <<"h","o","r","r","i","b","l","e">>,
    <<"d","i","s","a","p","p","o","i","n","t","e","d">>, <<"f","r","u","s","t","r","a","t","e","d">>, <<"a","n","g","r","y">>, <<"u","p","s","e","t">>, <<"a","n","n","o","y","e","d">>,
    <<"s","t","r","e","s","s","e","d">>, <<"f","u","c","k">>, <<"s","h","i","t">>, <<"d","a","m","n">>, <<"s","t","u","p","i","d">>, <<"f","o","o","l","i","s","h">>, <<"n","o">>,
    <<"d","o","n","'","t">>, <<"s","t","o","p">>, <<"w","o","r","s","t">>, <<"s","u","c","k">>, <<"n","a","s","t","y">>, <<"g","r","o","s","s">>, <<"d","i","s","g","u","s","t","i","n","g">>,
    <<"d","i","r","t","y">>}

\* _word_level_sentiment_analysis
word_level_sentiment_analysis(text) ==
    LET words == Split(text)
        positive_count ==
            Cardinality({i \in 1..Len(words) : words[i] \in positive_words})
        negative_count ==
            Cardinality({i \in 1..Len(words) : words[i] \in negative_words})
    IN  IF positive_count > 0 /\ positive_count >= negative_count
        THEN [emotion_type |-> "moderate_positive",
              intensity |-> Min(70000, 40000 + positive_count * 10000),
              hormone_adjustments |-> [dopamine |-> 8, serotonin |-> 5],
              triggered_by |-> << >>,
              method |-> "word_analysis"]
        ELSE IF negative_count > 0 /\ negative_count > positive_count
        THEN [emotion_type |-> "moderate_negative",
              intensity |-> Min(70000, 40000 + negative_count * 10000),
              hormone_adjustments |-> [cortisol |-> 8, serotonin |-> -5],
              triggered_by |-> << >>,
              method |-> "word_analysis"]
        ELSE [emotion_type |-> "neutral",
              intensity |-> 30000,
              hormone_adjustments |-> << >>,
              triggered_by |-> << >>,
              method |-> "neutral_fallback"]

\* The first (category, pattern), in table order, whose pattern occurs in the
\* text: the nested for loops of analyze_contextual_sentiment
RECURSIVE FirstPatternMatch(_, _, _)
FirstPatternMatch(text_lower, c, p) ==
    IF c > Len(EMOTION_PATTERNS) THEN <<0, 0>>
    ELSE IF p > Len(EMOTION_PATTERNS[c].patterns)
    THEN FirstPatternMatch(text_lower, c + 1, 1)
    ELSE IF Contains(text_lower, EMOTION_PATTERNS[c].patterns[p])
    THEN <<c, p>>
    ELSE FirstPatternMatch(text_lower, c, p + 1)

\* analyze_contextual_sentiment
analyze_contextual_sentiment(text) ==
    LET text_lower == Strip(Lower(text))
        hit == FirstPatternMatch(text_lower, 1, 1)
        config == EMOTION_PATTERNS[hit[1]]
    IN  IF hit[1] # 0
        THEN [emotion_type |-> config.emotion_type,
              intensity |->
                  calculate_contextual_intensity(text, config.base_intensity),
              hormone_adjustments |-> config.hormones,
              triggered_by |-> config.patterns[hit[2]],
              method |-> "pattern_match"]
        ELSE word_level_sentiment_analysis(text_lower)

(***************************************************************************)
(* State store: each document is [exists, data]                            *)
(***************************************************************************)
NoFile == [exists |-> FALSE, data |-> << >>]

\* A document whose content json.load rejects (a write that failed midway)
Torn == [exists |-> TRUE, data |-> << >>, torn |-> TRUE]

\* open(..., "r") and json.load both succeed
Parses(file) == file.exists /\ "torn" \notin DOMAIN file

\* _ensure_file: create the document with its defaults when it is missing
ensure_file(file, default_data) ==
    IF file.exists THEN file ELSE [exists |-> TRUE, data |-> default_data]

\* load_hormone_levels: the dict it returns (the document is ensured first;
\* the defaults when the document cannot be read)
load_hormone_levels(file) ==
    LET ensured == ensure_file(file, DEFAULT_HORMONES)
    IN  IF Parses(ensured) THEN ensured.data ELSE DEFAULT_HORMONES

\* save_hormone_levels: the document after the whole-record write
save_hormone_levels(levels) == [exists |-> TRUE, data |-> levels]

(***************************************************************************)
(* Hormone engine                                                          *)
(***************************************************************************)
\* 0.01 and 0.5 as hormone levels
Cent == ONE \div 100
Baseline == ONE \div 2

\* "Apply natural decay" of apply_contextual_hormone_adjustments
contextual_decay(hormones) ==
    [h \in DOMAIN hormones |->
        IF hormones[h] > Baseline THEN Max(Baseline, hormones[h] - Cent)
        ELSE IF hormones[h] < Baseline THEN Min(Baseline, hormones[h] + Cent)
        ELSE hormones[h]]

\* The intensity-scaled, clamped deltas of apply_contextual_hormone_adjustments
\* (delta in hundredths times intensity in 1e-5 is a level in 1e-7)
contextual_adjust(hormones, analysis) ==
    [h \in DOMAIN hormones |->
        IF h \in DOMAIN analysis.hormone_adjustments
        THEN Max(0, Min(ONE, hormones[h]
                 + analysis.hormone_adjustments[h] * analysis.intensity))
        ELSE hormones[h]]

\* apply_contextual_hormone_adjustments without its guard on empty
\* hormone_adjustments: the decay and the save run for a neutral text too
apply_contextual_unguarded(file, text) ==
    LET analysis == analyze_contextual_sentiment(text)
        hormones == contextual_decay(
                        contextual_adjust(load_hormone_levels(file), analysis))
    IN  [file |-> save_hormone_levels(hormones), ret |-> hormones]

\* apply_contextual_hormone_adjustments: the hormones document after the call
\* and the dict returned
apply_contextual_hormone_adjustments(file, text) ==
    LET analysis == analyze_contextual_sentiment(text)
        loaded == ensure_file(file, DEFAULT_HORMONES)
    IN  IF DOMAIN analysis.hormone_adjustments # {}
        THEN LET hormones ==
                     contextual_decay(contextual_adjust(loaded.data, analysis))
             IN  [file |-> save_hormone_levels(hormones), ret |-> hormones]
        ELSE [file |-> loaded, ret |-> loaded.data]

LegacyEvents == {"positive_feedback", "stress", "social_connection",
                 "isolation", "achievement", "disappointment"}

\* The if/elif chain of adjust_hormones with the min/max clamps left out
legacy_adjust_unclamped(hormones, event) ==
    CASE event = "positive_feedback" ->
            [hormones EXCEPT !.dopamine = @ + 10 * Cent,
                             !.serotonin = @ + 5 * Cent]
      [] event = "stress" ->
            [hormones EXCEPT !.cortisol = @ + 10 * Cent,
                             !.serotonin = @ - 5 * Cent]
      [] event = "social_connection" ->
            [hormones EXCEPT !.oxytocin = @ + 10 * Cent,
                             !.dopamine = @ + 5 * Cent]
      [] event = "isolation" ->
            [hormones EXCEPT !.oxytocin = @ - 10 * Cent,
                             !.cortisol = @ + 5 * Cent]
      [] event = "achievement" ->
            [hormones EXCEPT !.dopamine = @ + 15 * Cent,
                             !.serotonin = @ + 10 * Cent]
      [] event = "disappointment" ->
            [hormones EXCEPT !.dopamine = @ - 10 * Cent,
                             !.serotonin = @ - 8 * Cent]
      [] OTHER -> hormones

\* The if/elif chain of adjust_hormones: fixed deltas, clamped on one side
legacy_adjust(hormones, event) ==
    CASE event = "positive_feedback" ->
            [hormones EXCEPT !.dopamine = Min(ONE, @ + 10 * Cent),
                             !.serotonin = Min(ONE, @ + 5 * Cent)]
      [] event = "stress" ->
            [hormones EXCEPT !.cortisol = Min(ONE, @ + 10 * Cent),
                             !.serotonin = Max(0, @ - 5 * Cent)]
      [] event = "social_connection" ->
            [hormones EXCEPT !.oxytocin = Min(ONE, @ + 10 * Cent),
                             !.dopamine = Min(ONE, @ + 5 * Cent)]
      [] event = "isolation" ->
            [hormones EXCEPT !.oxytocin = Max(0, @ - 10 * Cent),
                             !.cortisol = Min(ONE, @ + 5 * Cent)]
      [] event = "achievement" ->
            [hormones EXCEPT !.dopamine = Min(ONE, @ + 15 * Cent),
                             !.serotonin = Min(ONE, @ + 10 * Cent)]
      [] event = "disappointment" ->
            [hormones EXCEPT !.dopamine = Max(0, @ - 10 * Cent),
                             !.serotonin = Max(0, @ - 8 * Cent)]
      [] OTHER -> hormones

\* The decay of adjust_hormones without its floor and ceiling at 0.5
natural_decay_unbounded(hormones) ==
    [h \in DOMAIN hormones |->
        IF hormones[h] > Baseline THEN hormones[h] - Cent
        ELSE IF hormones[h] < Baseline THEN hormones[h] + Cent
        ELSE hormones[h]]

\* "Natural decay toward baseline" of adjust_hormones
natural_decay(hormones) ==
    [h \in DOMAIN hormones |->
        IF hormones[h] > Baseline THEN Max(Baseline, hormones[h] - Cent)
        ELSE IF hormones[h] < Baseline THEN Min(Baseline, hormones[h] + Cent)
        ELSE hormones[h]]

\* adjust_hormones with the decay loop left out
adjust_hormones_without_decay(file, event) ==
    LET hormones == legacy_adjust(load_hormone_levels(file), event)
    IN  [file |-> save_hormone_levels(hormones), ret |-> hormones]

\* adjust_hormones: the hormones document after the call and the dict returned
adjust_hormones(file, event) ==
    LET hormones ==
            natural_decay(legacy_adjust(load_hormone_levels(file), event))
    IN  [file |-> save_hormone_levels(hormones), ret |-> hormones]

\* The drift loop of simulate_hormone_fluctuation: drift[h] is the value
\* random.uniform(-0.02, 0.02) drew for h; the pull toward 0.5 is rounded to
\* the level resolution
fluctuate(hormones, drift) ==
    [h \in DOMAIN hormones |->
        LET baseline_pull == (Baseline - hormones[h]) \div 100
        IN  Max(0, Min(ONE, hormones[h] + drift[h] + baseline_pull))]

(***************************************************************************)
(* Mood inference engine                                                   *)
(***************************************************************************)
\* _DEFAULT_MOOD_WEIGHTS, in dict order; weights in tenths
DEFAULT_MOOD_WEIGHTS == <<
    [mood |-> <<"c","h","e","e","r","f","u","l">>, weights |-> [dopamine |-> 7, serotonin |-> 3]],
    [mood |-> <<"a","n","x","i","o","u","s">>, weights |-> [cortisol |-> 8, dopamine |-> -3]],
    [mood |-> <<"a","f","f","e","c","t","i","o","n","a","t","e">>, weights |-> [oxytocin |-> 9]],
    [mood |-> <<"d","e","p","r","e","s","s","e","d">>, weights |-> [serotonin |-> -5, cortisol |-> 6]],
    [mood |-> <<"e","x","c","i","t","e","d">>, weights |-> [dopamine |-> 8, cortisol |-> 2]],
    [mood |-> <<"m","e","l","a","n","c","h","o","l","i","c">>, weights |-> [serotonin |-> -4, dopamine |-> -2]],
    [mood |-> <<"e","n","e","r","g","e","t","i","c">>, weights |-> [dopamine |-> 6, serotonin |-> 4]],
    [mood |-> <<"c","o","n","t","e","m","p","l","a","t","i","v","e">>, weights |-> [serotonin |-> 3, cortisol |-> -2]],
    [mood |-> <<"r","e","s","t","l","e","s","s">>, weights |-> [cortisol |-> 5, dopamine |-> 3]],
    [mood |-> <<"s","e","r","e","n","e">>, weights |-> [serotonin |-> 8, cortisol |-> -4]] >>

\* load_mood_weights: the table it returns
load_mood_weights(file) ==
    LET ensured == ensure_file(file, DEFAULT_MOOD_WEIGHTS)
    IN  IF Parses(ensured) THEN ensured.data ELSE DEFAULT_MOOD_WEIGHTS

\* hormone_levels.get(hormone, 0.5)
HormoneGet(hormone_levels, hormone) ==
    IF hormone \in DOMAIN hormone_levels
    THEN hormone_levels[hormone] ELSE Baseline

RECURSIVE WeightedSum(_, _, _)
WeightedSum(hormone_levels, weights, hs) ==
    IF hs = {} THEN 0
    ELSE LET h == CHOOSE x \in hs : TRUE
         IN  HormoneGet(hormone_levels, h) * weights[h]
             + WeightedSum(hormone_levels, weights, hs \ {h})

\* calculate_mood_scores: one (mood, score) per table entry, in table order
calculate_mood_scores(hormone_levels, mood_weights) ==
    [i \in 1..Len(mood_weights) |->
        [mood |-> mood_weights[i].mood,
         score |-> WeightedSum(hormone_levels, mood_weights[i].weights,
                               DOMAIN mood_weights[i].weights)]]

\* sorted(mood_scores.items(), key=lambda x: abs(x[1]), reverse=True):
\* Python's sort is stable, so equal keys keep the dict order
SortedByAbs(mood_scores) ==
    LET n == Len(mood_scores)
        rank(i) ==
            1 + Cardinality({j \in 1..n :
                    \/ Abs(mood_scores[j].score) > Abs(mood_scores[i].score)
                    \/ /\ Abs(mood_scores[j].score) = Abs(mood_scores[i].score)
                       /\ j < i})
    IN  [k \in 1..n |-> mood_scores[CHOOSE i \in 1..n : rank(i) = k]]

RECURSIVE MaxAbsScore(_, _)
MaxAbsScore(mood_scores, i) ==
    IF i > Len(mood_scores) THEN 0
    ELSE Max(Abs(mood_scores[i].score), MaxAbsScore(mood_scores, i + 1))

\* The threshold default of detect_undefined_mood_state (0.15) and the
\* flat-affect limit (0.2), as scores
HybridThreshold == (15 * ScoreOne) \div 100
FlatLimit == (2 * ScoreOne) \div 10

\* The hybrid branch naming a both-positive pair "{top}-{second}"
hybrid_state_top_first(top, second) ==
    LET hybrid_name ==
            IF top.score > 0 /\ second.score > 0
            THEN top.mood \o <<"-">> \o second.mood
            ELSE IF top.score < 0 /\ second.score < 0
            THEN <<"c","o","n","f","l","i","c","t","e","d","-">> \o top.mood
            ELSE LET pos_mood == IF top.score > 0 THEN top.mood
                                 ELSE second.mood
                 IN  <<"b","i","t","t","e","r","s","w","e","e","t","-">> \o pos_mood
        intensity == Abs(top.score) + Abs(second.score)
    IN  [is_undefined |-> TRUE, mood_name |-> hybrid_name,
         intensity |-> Min(MoodOne, intensity)]

\* The hybrid branch with the abs() of the top score left out of the mean
hybrid_state_signed_top(top, second) ==
    LET hybrid_name ==
            IF top.score > 0 /\ second.score > 0
            THEN second.mood \o <<"-">> \o top.mood
            ELSE IF top.score < 0 /\ second.score < 0
            THEN <<"c","o","n","f","l","i","c","t","e","d","-">> \o top.mood
            ELSE LET pos_mood == IF top.score > 0 THEN top.mood
                                 ELSE second.mood
                 IN  <<"b","i","t","t","e","r","s","w","e","e","t","-">> \o pos_mood
        intensity == top.score + Abs(second.score)
    IN  [is_undefined |-> TRUE, mood_name |-> hybrid_name,
         intensity |-> Min(MoodOne, intensity)]

\* The hybrid branch of detect_undefined_mood_state
hybrid_state(top, second) ==
    LET hybrid_name ==
            IF top.score > 0 /\ second.score > 0
            THEN second.mood \o <<"-">> \o top.mood
            ELSE IF top.score < 0 /\ second.score < 0
            THEN <<"c","o","n","f","l","i","c","t","e","d","-">> \o top.mood
            ELSE LET pos_mood == IF top.score > 0 THEN top.mood
                                 ELSE second.mood
                 IN  <<"b","i","t","t","e","r","s","w","e","e","t","-">> \o pos_mood
        \* (abs(top_score) + abs(second_score)) / 2, in mood-intensity units
        intensity == Abs(top.score) + Abs(second.score)
    IN  [is_undefined |-> TRUE, mood_name |-> hybrid_name,
         intensity |-> Min(MoodOne, intensity)]

\* The archetype cascade of detect_undefined_mood_state, after the hybrid and
\* flat-affect rules
archetype_state(top, hormone_levels) ==
    LET dopamine == HormoneGet(hormone_levels, "dopamine")
        cortisol == HormoneGet(hormone_levels, "cortisol")
        serotonin == HormoneGet(hormone_levels, "serotonin")
        oxytocin == HormoneGet(hormone_levels, "oxytocin")
        all4 == {dopamine, cortisol, serotonin, oxytocin}
    IN  IF dopamine > (7 * ONE) \div 10 /\ cortisol > (7 * ONE) \div 10
        THEN [is_undefined |-> TRUE, mood_name |-> <<"m","a","n","i","c","-","e","n","e","r","g","y">>,
              intensity |-> 10 * (dopamine + cortisol)]
        ELSE IF serotonin < (3 * ONE) \div 10 /\ oxytocin > (7 * ONE) \div 10
        THEN [is_undefined |-> TRUE, mood_name |-> <<"m","e","l","a","n","c","h","o","l","i","c","-","a","f","f","e","c","t","i","o","n">>,
              intensity |-> 10 * (oxytocin + (ONE - serotonin))]
        ELSE IF \A level \in all4 : level > (8 * ONE) \div 10
        THEN [is_undefined |-> TRUE, mood_name |-> <<"o","v","e","r","w","h","e","l","m","e","d">>,
              intensity |-> (9 * MoodOne) \div 10]
        ELSE IF \A level \in all4 : level < (2 * ONE) \div 10
        THEN [is_undefined |-> TRUE, mood_name |-> <<"n","u","m","b">>,
              intensity |-> (8 * MoodOne) \div 10]
        ELSE [is_undefined |-> FALSE, mood_name |-> top.mood,
              intensity |-> 2 * Abs(top.score)]

\* detect_undefined_mood_state with the archetype rules tried before the
\* hybrid and flat-affect rules
detect_archetype_first(mood_scores, hormone_levels) ==
    LET sorted_moods == SortedByAbs(mood_scores)
        top == sorted_moods[1]
        second == sorted_moods[2]
        max_abs_score == MaxAbsScore(mood_scores, 1)
        archetype == archetype_state(top, hormone_levels)
    IN  IF Len(sorted_moods) < 2
        THEN [is_undefined |-> FALSE, mood_name |-> top.mood,
              intensity |-> 2 * Abs(top.score)]
        ELSE IF archetype.is_undefined THEN archetype
        ELSE IF Abs(Abs(top.score) - Abs(second.score)) < HybridThreshold
        THEN hybrid_state(top, second)
        ELSE IF max_abs_score < FlatLimit
        THEN [is_undefined |-> TRUE, mood_name |-> <<"u","n","d","e","f","i","n","e","d","-","n","e","u","t","r","a","l">>,
              intensity |-> 2 * max_abs_score]
        ELSE archetype

\* detect_undefined_mood_state: (is_undefined, mood_name, intensity)
detect_undefined_mood_state(mood_scores, hormone_levels) ==
    LET sorted_moods == SortedByAbs(mood_scores)
        top == sorted_moods[1]
        second == sorted_moods[2]
        max_abs_score == MaxAbsScore(mood_scores, 1)
    IN  IF Len(sorted_moods) < 2
        THEN [is_undefined |-> FALSE, mood_name |-> top.mood,
              intensity |-> 2 * Abs(top.score)]
        ELSE IF Abs(Abs(top.score) - Abs(second.score)) < HybridThreshold
        THEN hybrid_state(top, second)
        ELSE IF max_abs_score < FlatLimit
        THEN [is_undefined |-> TRUE, mood_name |-> <<"u","n","d","e","f","i","n","e","d","-","n","e","u","t","r","a","l">>,
              intensity |-> 2 * max_abs_score]
        ELSE archetype_state(top, hormone_levels)

\* The prefixes list of generate_emergent_mood_variations, in append order
emergent_prefixes(hormone_levels) ==
    LET dopamine == HormoneGet(hormone_levels, "dopamine")
        cortisol == HormoneGet(hormone_levels, "cortisol")
        serotonin == HormoneGet(hormone_levels, "serotonin")
        oxytocin == HormoneGet(hormone_levels, "oxytocin")
    IN  (IF cortisol > (6 * ONE) \div 10 THEN <<<<"t","e","n","s","e">>>>
         ELSE IF cortisol < (3 * ONE) \div 10 THEN <<<<"r","e","l","a","x","e","d">>>> ELSE << >>)
        \o (IF dopamine > (7 * ONE) \div 10 THEN <<<<"e","n","e","r","g","e","t","i","c">>>>
            ELSE IF dopamine < (3 * ONE) \div 10 THEN <<<<"l","e","t","h","a","r","g","i","c">>>>
            ELSE << >>)
        \o (IF oxytocin > (7 * ONE) \div 10 THEN <<<<"w","a","r","m">>>>
            ELSE IF oxytocin < (3 * ONE) \div 10 THEN <<<<"d","i","s","t","a","n","t">>>>
            ELSE << >>)
        \o (IF serotonin > (7 * ONE) \div 10 THEN <<<<"b","a","l","a","n","c","e","d">>>>
            ELSE IF serotonin < (3 * ONE) \div 10 THEN <<<<"u","n","s","t","a","b","l","e">>>>
            ELSE << >>)

\* generate_emergent_mood_variations: every label the two random draws
\* (random.random() > 0.5, random.choice) can produce
generate_emergent_mood_variations(base_mood, hormone_levels) ==
    LET prefixes == emergent_prefixes(hormone_levels)
    IN  {base_mood}
        \cup {prefixes[i] \o <<"-">> \o base_mood : i \in 1..Len(prefixes)}

\* The "standard mood selection" loop of infer_mood_from_hormones
RECURSIVE BestMood(_, _, _)
BestMood(mood_scores, i, best) ==
    IF i > Len(mood_scores) THEN best
    ELSE BestMood(mood_scores, i + 1,
                  IF Abs(mood_scores[i].score) > Abs(best.score)
                  THEN mood_scores[i] ELSE best)

\* infer_mood_from_hormones with the variation step applied to undefined
\* labels as well
infer_varying_every_label(hormone_levels, mood_weights) ==
    LET mood_scores == calculate_mood_scores(hormone_levels, mood_weights)
        state == detect_undefined_mood_state(mood_scores, hormone_levels)
        best == BestMood(mood_scores, 1, [mood |-> <<"n","e","u","t","r","a","l">>, score |-> 0])
    IN  IF state.is_undefined
        THEN {[mood |-> final_mood,
               intensity |-> Max(0, Min(MoodOne, state.intensity))] :
              final_mood \in generate_emergent_mood_variations(
                                 state.mood_name, hormone_levels)}
        ELSE {[mood |-> final_mood,
               intensity |-> Max(0, Min(MoodOne, 2 * Abs(best.score)))] :
              final_mood \in
                  generate_emergent_mood_variations(best.mood, hormone_levels)}

\* infer_mood_from_hormones: every (mood, intensity) it can return
infer_mood_from_hormones(hormone_levels, mood_weights) ==
    LET mood_scores == calculate_mood_scores(hormone_levels, mood_weights)
        state == detect_undefined_mood_state(mood_scores, hormone_levels)
        best == BestMood(mood_scores, 1, [mood |-> <<"n","e","u","t","r","a","l">>, score |-> 0])
    IN  IF state.is_undefined
        THEN {[mood |-> state.mood_name,
               intensity |-> Max(0, Min(MoodOne, state.intensity))]}
        ELSE {[mood |-> final_mood,
               intensity |-> Max(0, Min(MoodOne, 2 * Abs(best.score)))] :
              final_mood \in
                  generate_emergent_mood_variations(best.mood, hormone_levels)}

(***************************************************************************)
(* Mood recorder                                                           *)
(***************************************************************************)
\* get_mood_context
get_mood_context(mood_name, intensity) ==
    [mood |-> mood_name,
     intensity |-> intensity,
     is_hybrid |-> /\ Contains(mood_name, <<"-">>)
                   /\ mood_name \notin {<<"w","e","l","l","-","b","e","i","n","g">>, <<"s","e","l","f","-","e","s","t","e","e","m">>},
     is_emergent |-> \E prefix \in {<<"u","n","d","e","f","i","n","e","d">>, <<"m","a","n","i","c">>, <<"m","e","l","a","n","c","h","o","l","i","c">>,
                                    <<"o","v","e","r","w","h","e","l","m","e","d">>, <<"n","u","m","b">>} :
                         Contains(mood_name, prefix),
     stability |-> IF intensity > (8 * MoodOne) \div 10 THEN "low"
                   ELSE IF intensity > (4 * MoodOne) \div 10 THEN "medium"
                   ELSE "high"]

\* The history cap of update_mood
HISTORY_LIMIT == 100

\* load_mood_history: the list it returns, and the document after the call
\* (a missing document is created holding the empty list)
load_mood_history(file) ==
    LET ensured == ensure_file(file, << >>)
    IN  IF Parses(ensured) THEN ensured.data ELSE << >>

\* save_mood_history
save_mood_history(history) == [exists |-> TRUE, data |-> history]

\* mood_data of update_mood, written to mood_adjustments.json
mood_snapshot(new_mood, intensity, hormone_context, now) ==
    [exists |-> TRUE,
     data |-> [current_mood |-> new_mood, intensity |-> intensity,
               context |-> hormone_context, last_updated |-> now]]

\* history_entry of update_mood; hormones is the hormones document, read for
\* the snapshot only when the reason names a contextual or event update
history_entry(new_mood, intensity, reason, hormone_context, now, hormones) ==
    LET entry == [timestamp |-> now, mood |-> new_mood,
                  intensity |-> intensity, reason |-> reason,
                  is_hybrid |-> hormone_context.is_hybrid,
                  is_emergent |-> hormone_context.is_emergent,
                  stability |-> hormone_context.stability]
    IN  IF reason # << >>
           /\ (Contains(reason, <<"c","o","n","t","e","x","t","u","a","l">>)
               \/ Contains(reason, <<"h","o","r","m","o","n","e","_","e","v","e","n","t">>))
        THEN [k \in DOMAIN entry \cup {"hormone_snapshot"} |->
                 IF k = "hormone_snapshot" THEN load_hormone_levels(hormones)
                 ELSE entry[k]]
        ELSE entry

\* The append with the trim keeping the first HISTORY_LIMIT entries
\* (history[:100]) in place of the last
append_and_trim_head(history, entry) ==
    LET appended_history == Append(history, entry)
    IN  IF Len(appended_history) > HISTORY_LIMIT
        THEN SubSeq(appended_history, 1, HISTORY_LIMIT)
        ELSE appended_history

\* history.append(entry) and the trim to the last HISTORY_LIMIT entries
append_and_trim(history, entry) ==
    LET appended_history == Append(history, entry)
        n == Len(appended_history)
    IN  IF n > HISTORY_LIMIT
        THEN SubSeq(appended_history, n - HISTORY_LIMIT + 1, n)
        ELSE appended_history

\* hormone_context=None
None == [none |-> TRUE]

\* update_mood, run to completion: the documents after the call.  The clock
\* is read twice (last_updated, timestamp).
update_mood(new_mood, intensity, reason, hormone_context, hormones, history, now) ==
    LET context == IF hormone_context = None
                   THEN get_mood_context(new_mood, intensity)
                   ELSE hormone_context
        entry == history_entry(new_mood, intensity, reason, context,
                               now + 2, hormones)
        snapshots == "hormone_snapshot" \in DOMAIN entry
    IN  [moodFile |-> mood_snapshot(new_mood, intensity, context, now + 1),
         historyFile |-> save_mood_history(
                             append_and_trim(load_mood_history(history), entry)),
         hormonesFile |-> IF snapshots
                          THEN ensure_file(hormones, DEFAULT_HORMONES)
                          ELSE hormones,
         entry |-> entry,
         clock |-> now + 2]

\* update_mood_from_hormones: every outcome of the call (one per mood the
\* inference can return): the documents after it and what it returns
update_mood_from_hormones(reason, hormones, weights, history, now) ==
    LET hormone_levels == load_hormone_levels(hormones)
        mood_weights == load_mood_weights(weights)
    IN  {LET context == get_mood_context(m.mood, m.intensity)
             u == update_mood(m.mood, m.intensity, reason, context,
                              ensure_file(hormones, DEFAULT_HORMONES),
                              history, now)
         IN  [hormonesFile |-> u.hormonesFile,
              weightsFile |-> ensure_file(weights, DEFAULT_MOOD_WEIGHTS),
              moodFile |-> u.moodFile,
              historyFile |-> u.historyFile,
              entry |-> u.entry,
              clock |-> u.clock,
              ret |-> [mood |-> m.mood, intensity |-> m.intensity,
                       context |-> context]] :
         m \in infer_mood_from_hormones(hormone_levels, mood_weights)}

(***************************************************************************)
(* Spec: the hormone engine, one caller                                    *)
(***************************************************************************)
\* Calls per run
MaxCalls == 2
\* Length of the runs of one legacy event that produce the starting records
StartRuns == 5

\* The utterances tried
Texts == {<<"I"," ","l","o","v","e"," ","y","o","u"," ","s","o"," ","m","u","c","h","!","!","!">>, <<"o","k">>, <<"t","h","a","n","k","s">>, <<"D","A","M","N"," ","B","A","D","!">>,
          <<"y","o","u"," ","a","r","e"," ","a","m","a","z","i","n","g">>}

\* The six legacy events and the name analyze_conversation_sentiment gives a
\* neutral utterance, which adjust_hormones does not know
Events == LegacyEvents \cup {"neutral_interaction"}

\* The values random.uniform(-0.02, 0.02) is taken to draw: its two ends
Drifts == {-2 * Cent, 2 * Cent}

RECURSIVE Repeated(_, _, _)
Repeated(file, event, n) ==
    IF n = 0 THEN file
    ELSE Repeated(adjust_hormones(file, event).file, event, n - 1)

\* Hormone documents the program reaches from its defaults: none yet, the
\* defaults, and the record after a run of one legacy event
StartFiles ==
    {NoFile, save_hormone_levels(DEFAULT_HORMONES)}
    \cup {Repeated(NoFile, e, StartRuns) :
            e \in {"achievement", "disappointment", "stress"}}

Idle == [op |-> "none", input |-> << >>, before |-> NoFile, ret |-> << >>]

Init ==
    /\ hormonesFile \in StartFiles
    /\ weightsFile = NoFile
    /\ moodFile = NoFile
    /\ historyFile = NoFile
    /\ clock = 0
    /\ calls = 0
    /\ appended = << >>
    /\ last = Idle
    /\ procs = << >>
    /\ arg = << >>
    /\ res = << >>

\* apply_contextual_hormone_adjustments(text)
ApplyContextual(text) ==
    LET r == apply_contextual_hormone_adjustments(hormonesFile, text)
    IN  /\ hormonesFile' = r.file
        /\ last' = [op |-> "apply_contextual_hormone_adjustments",
                    input |-> text, before |-> hormonesFile, ret |-> r.ret]
        /\ UNCHANGED <<weightsFile, moodFile, historyFile, clock, appended,
                       procs, arg, res>>

\* adjust_hormones(event)
AdjustHormones(event) ==
    LET r == adjust_hormones(hormonesFile, event)
    IN  /\ hormonesFile' = r.file
        /\ last' = [op |-> "adjust_hormones", input |-> event,
                    before |-> hormonesFile, ret |-> r.ret]
        /\ UNCHANGED <<weightsFile, moodFile, historyFile, clock, appended,
                       procs, arg, res>>

\* simulate_hormone_fluctuation(): the drift, the save, and the mood update it
\* ends with
SimulateHormoneFluctuation(drift) ==
    LET hormones == fluctuate(load_hormone_levels(hormonesFile), drift)
        saved == save_hormone_levels(hormones)
    IN  \E u \in update_mood_from_hormones(<<"n","a","t","u","r","a","l","_","f","l","u","c","t","u","a","t","i","o","n">>, saved,
                                           weightsFile, historyFile, clock) :
            /\ hormonesFile' = u.hormonesFile
            /\ weightsFile' = u.weightsFile
            /\ moodFile' = u.moodFile
            /\ historyFile' = u.historyFile
            /\ clock' = u.clock
            /\ appended' = Append(appended, u.entry)
            /\ last' = [op |-> "simulate_hormone_fluctuation",
                        input |-> drift, before |-> hormonesFile,
                        ret |-> u.ret]
            /\ UNCHANGED <<procs, arg, res>>

ApplyContextualCall ==
    /\ calls < MaxCalls
    /\ calls' = calls + 1
    /\ \E text \in Texts : ApplyContextual(text)

AdjustHormonesCall ==
    /\ calls < MaxCalls
    /\ calls' = calls + 1
    /\ \E event \in Events : AdjustHormones(event)

SimulateHormoneFluctuationCall ==
    /\ calls < MaxCalls
    /\ calls' = calls + 1
    /\ \E drift \in [HormoneNames -> Drifts] :
           SimulateHormoneFluctuation(drift)

Next ==
    \/ ApplyContextualCall
    \/ AdjustHormonesCall
    \/ SimulateHormoneFluctuationCall

Spec == Init /\ [][Next]_vars

LoveText == <<"I"," ","l","o","v","e"," ","y","o","u"," ","s","o"," ","m","u","c","h","!","!","!">>

\* C1: starting from the default record, after any sequence of adjustment
\* operations every hormone level of the persisted record lies in [0.0, 1.0].
C1_LevelsInUnitInterval ==
    hormonesFile.exists =>
        /\ DOMAIN hormonesFile.data = HormoneNames
        /\ \A h \in HormoneNames :
               0 <= hormonesFile.data[h] /\ hormonesFile.data[h] <= ONE

\* A legacy event whose delta, unclamped, would carry dopamine above 1.0 has
\* been applied and persisted.
C1_ClampEngaged ==
    /\ last.op = "adjust_hormones"
    /\ last.input = "achievement"
    /\ last.before.exists
    /\ last.before.data.dopamine + 15 * Cent > ONE
    /\ hormonesFile.data = last.ret

\* C4: a text whose analysis carries empty hormone_adjustments leaves the
\* persisted hormone record as it was (no delta, no decay), and the record
\* returned is the stored one.
C4_NeutralTextLeavesRecord ==
    (/\ last.op = "apply_contextual_hormone_adjustments"
     /\ DOMAIN analyze_contextual_sentiment(last.input).hormone_adjustments
            = {})
    => /\ hormonesFile.exists
       /\ hormonesFile.data = load_hormone_levels(last.before)
       /\ last.before.exists => hormonesFile = last.before
       /\ last.ret = hormonesFile.data

\* A neutral text has been processed against a stored record that the decay
\* step would have moved.
C4_NeutralOnOffBaseline ==
    /\ last.op = "apply_contextual_hormone_adjustments"
    /\ analyze_contextual_sentiment(last.input).method = "neutral_fallback"
    /\ last.before.exists
    /\ \E h \in HormoneNames : last.before.data[h] # Baseline
    /\ natural_decay(last.before.data) # last.before.data

\* C7: "I love you so much!!!" against the default record is strong_positive
\* by the phrase "love you" with intensity 0.96; dopamine, serotonin and
\* oxytocin rise by delta * 0.96 and are then pulled 0.01 toward 0.5, all
\* three end above 0.5, cortisol is unchanged.
C7_LoveYouIsStrongPositive ==
    (/\ last.op = "apply_contextual_hormone_adjustments"
     /\ last.input = LoveText
     /\ load_hormone_levels(last.before) = DEFAULT_HORMONES)
    => LET analysis == analyze_contextual_sentiment(LoveText)
       IN  /\ analysis.emotion_type = "strong_positive"
           /\ analysis.triggered_by = <<"l","o","v","e"," ","y","o","u">>
           /\ analysis.intensity = (96 * IntensityOne) \div 100
           /\ hormonesFile.data = last.ret
           /\ last.ret.dopamine = Baseline + 15 * analysis.intensity - Cent
           /\ last.ret.serotonin = Baseline + 10 * analysis.intensity - Cent
           /\ last.ret.oxytocin = Baseline + 10 * analysis.intensity - Cent
           /\ last.ret.cortisol = Baseline
           /\ \A h \in {"dopamine", "serotonin", "oxytocin"} :
                  last.ret[h] > Baseline

(***************************************************************************)
(* SpecDecay: repeated decay-only calls of adjust_hormones                 *)
(***************************************************************************)
\* The levels a decay run starts from: the ends of [0, 1], the baseline, and
\* levels off the 0.01 grid on either side of it
DecayStarts == {0, Baseline - (3 * Cent) \div 2, Baseline,
                Baseline + Cent \div 2, ONE}

\* Event names outside the enumeration of adjust_hormones
UnknownEvents == {"neutral_interaction", "unknown"}

InitDecay ==
    /\ \E levels \in [HormoneNames -> DecayStarts] :
           hormonesFile = save_hormone_levels(levels)
    /\ weightsFile = NoFile
    /\ moodFile = NoFile
    /\ historyFile = NoFile
    /\ clock = 0
    /\ calls = 0
    /\ appended = << >>
    /\ last = Idle
    /\ procs = << >>
    /\ arg = << >>
    /\ res = << >>

\* adjust_hormones(event) for an event it does not know
DecayOnlyCall ==
    /\ \E event \in UnknownEvents : AdjustHormones(event)
    /\ UNCHANGED calls

NextDecay == DecayOnlyCall

\* The calls are repeated without end
SpecDecay == InitDecay /\ [][NextDecay]_vars /\ WF_vars(DecayOnlyCall)

Distance(level) == Abs(level - Baseline)

AllAtBaseline == \A h \in HormoneNames : hormonesFile.data[h] = Baseline

\* What one decay-only call does to a hormone
DecayStepShape ==
    \A h \in HormoneNames :
        LET before == hormonesFile.data[h]
            after == hormonesFile'.data[h]
        IN  /\ \/ Distance(after) = Distance(before) - Cent
               \/ Distance(after) = 0
            /\ Distance(after) <= Distance(before)
            /\ before >= Baseline => after >= Baseline
            /\ before <= Baseline => after <= Baseline
            /\ before = Baseline => after = Baseline

\* C2: on each decay-only call every hormone's distance to 0.5 shrinks by 0.01
\* or becomes 0, no level crosses 0.5, a level at 0.5 stays there, and every
\* level eventually equals 0.5 for good.
C2_DecayConverges == [][DecayStepShape]_vars /\ <>[]AllAtBaseline

\* The last call brought a level that was less than 0.01 away onto 0.5, and
\* every level is now at 0.5.
C2_ArrivedAtBaseline ==
    /\ last.op = "adjust_hormones"
    /\ last.input \in UnknownEvents
    /\ AllAtBaseline
    /\ \E h \in HormoneNames :
           /\ last.before.data[h] # Baseline
           /\ Distance(last.before.data[h]) < Cent

(***************************************************************************)
(* SpecHistory: update_mood called over and over by one caller             *)
(***************************************************************************)
\* Calls per run: enough to pass the history cap
MaxHistoryCalls == 103
\* The first calls of a run take any of the inputs, the later ones the first
VariedCalls == 2

SteadyInput == [mood |-> <<"c","h","e","e","r","f","u","l">>, intensity |-> (6 * MoodOne) \div 10,
                reason |-> <<"m","a","n","u","a","l">>]

HistoryInputs ==
    {SteadyInput,
     [mood |-> <<"t","e","n","s","e","-","a","n","x","i","o","u","s">>, intensity |-> (9 * MoodOne) \div 10,
      reason |-> <<"c","o","n","t","e","x","t","u","a","l","_","a","n","a","l","y","s","i","s">>],
     [mood |-> <<"n","u","m","b">>, intensity |-> (8 * MoodOne) \div 10,
      reason |-> << >>]}

InputsAt(n) == IF n < VariedCalls THEN HistoryInputs ELSE {SteadyInput}

InitHistory ==
    /\ hormonesFile = NoFile
    /\ weightsFile = NoFile
    /\ moodFile = NoFile
    /\ historyFile = NoFile
    /\ clock = 0
    /\ calls = 0
    /\ appended = << >>
    /\ last = Idle
    /\ procs = << >>
    /\ arg = << >>
    /\ res = << >>

\* update_mood(new_mood, intensity, reason), no context given
UpdateMood(input) ==
    LET u == update_mood(input.mood, input.intensity, input.reason, None,
                         hormonesFile, historyFile, clock)
    IN  /\ moodFile' = u.moodFile
        /\ historyFile' = u.historyFile
        /\ hormonesFile' = u.hormonesFile
        /\ clock' = u.clock
        /\ appended' = Append(appended, u.entry)
        /\ last' = [op |-> "update_mood", input |-> input,
                    before |-> historyFile, ret |-> << >>]
        /\ UNCHANGED <<weightsFile, procs, arg, res>>

UpdateMoodCall ==
    /\ calls < MaxHistoryCalls
    /\ calls' = calls + 1
    /\ \E input \in InputsAt(calls) : UpdateMood(input)

NextHistory == UpdateMoodCall

SpecHistory == InitHistory /\ [][NextHistory]_vars

\* The last n elements of a sequence
LastN(q, n) == SubSeq(q, Len(q) - n + 1, Len(q))

\* C3: after N sequential update_mood calls from an empty history the
\* persisted history has length min(N, 100) and holds the most recently
\* appended entries in append order.
C3_HistoryIsLastHundred ==
    /\ Len(appended) = calls
    /\ Len(historyFile.data) = Min(calls, HISTORY_LIMIT)
    /\ historyFile.data = LastN(appended, Min(calls, HISTORY_LIMIT))

\* More than 100 entries have been appended and the oldest were evicted.
C3_OldestEvicted ==
    /\ calls > HISTORY_LIMIT + 1
    /\ Len(historyFile.data) = HISTORY_LIMIT
    /\ historyFile.data[1] = appended[calls - HISTORY_LIMIT + 1]
    /\ \A i \in 1..Len(historyFile.data) : historyFile.data[i] # appended[1]
    /\ historyFile.data[HISTORY_LIMIT] = appended[calls]

(***************************************************************************)
(* SpecDetect: detect_undefined_mood_state on score tables                 *)
(***************************************************************************)
NoResult == [computed |-> FALSE]
Result(v) == [computed |-> TRUE, value |-> v]

\* n hundredths as a mood score
ScoreOf(n) == n * (ScoreOne \div 100)

\* The scores tried, in hundredths: both signs, zero, pairs closer than 0.15,
\* pairs exactly 0.15 apart, a flat pair, and pairs whose mean exceeds 1.0
ScoreInputs == {-40, -33, 0, 15, 33, 40, 55, 110, 120}

TableMoods == <<<<"c","h","e","e","r","f","u","l">>, <<"a","n","x","i","o","u","s">>, <<"s","e","r","e","n","e">>>>

\* Score tables of two moods and of Len(TableMoods) moods, in dict order
ScoreTables ==
    UNION {{[i \in 1..n |-> [mood |-> TableMoods[i], score |-> ScoreOf(f[i])]] :
              f \in [1..n -> ScoreInputs]} : n \in {2, Len(TableMoods)}}

ManicRecord == [dopamine |-> (75 * ONE) \div 100, cortisol |-> (75 * ONE) \div 100,
                serotonin |-> Baseline, oxytocin |-> Baseline]

InitDetect ==
    /\ hormonesFile = NoFile
    /\ weightsFile = NoFile
    /\ moodFile = NoFile
    /\ historyFile = NoFile
    /\ clock = 0
    /\ calls = 0
    /\ appended = << >>
    /\ last = Idle
    /\ procs = << >>
    /\ arg \in {[mood_scores |-> t, hormone_levels |-> l] :
                  t \in ScoreTables, l \in {DEFAULT_HORMONES, ManicRecord}}
    /\ res = NoResult

\* detect_undefined_mood_state(mood_scores, hormone_levels)
Detect ==
    /\ ~res.computed
    /\ res' = Result(detect_undefined_mood_state(arg.mood_scores,
                                                 arg.hormone_levels))
    /\ UNCHANGED <<hormonesFile, weightsFile, moodFile, historyFile, clock,
                   calls, appended, last, procs, arg>>

NextDetect == Detect

SpecDetect == InitDetect /\ [][NextDetect]_vars

\* The table position of the largest |score| (the earliest of equals), and of
\* the largest among the others
TopIndex(t) ==
    CHOOSE i \in 1..Len(t) :
        \A j \in 1..Len(t) :
            \/ Abs(t[i].score) > Abs(t[j].score)
            \/ Abs(t[i].score) = Abs(t[j].score) /\ i <= j

SecondIndex(t) ==
    CHOOSE i \in 1..Len(t) \ {TopIndex(t)} :
        \A j \in 1..Len(t) \ {TopIndex(t)} :
            \/ Abs(t[i].score) > Abs(t[j].score)
            \/ Abs(t[i].score) = Abs(t[j].score) /\ i <= j

\* The two largest |score| values are less than 0.15 apart
TopTwoClose(t) ==
    Abs(t[TopIndex(t)].score) - Abs(t[SecondIndex(t)].score) < ScoreOf(15)

\* Every label the hybrid rule can give for the moods of a table
HybridLabels(t) ==
    LET moods == {t[i].mood : i \in 1..Len(t)}
    IN  {x \o <<"-">> \o y : x \in moods, y \in moods}
        \cup {<<"c","o","n","f","l","i","c","t","e","d","-">> \o x : x \in moods}
        \cup {<<"b","i","t","t","e","r","s","w","e","e","t","-">> \o x : x \in moods}

\* C8: for a score table of at least two moods the hybrid rule fires exactly
\* when the two largest |score| values differ by less than 0.15; the label is
\* then "{second}-{top}" for two positive scores, "conflicted-{top}" for two
\* negative ones and "bittersweet-{the positive one}" for one of each sign,
\* and the intensity is the mean of the two |score| values clamped to [0, 1].
C8_HybridRule ==
    res.computed =>
        LET t == arg.mood_scores
            top == t[TopIndex(t)]
            second == t[SecondIndex(t)]
            got == res.value
        IN  IF TopTwoClose(t)
            THEN /\ got.is_undefined
                 /\ got.mood_name \in HybridLabels(t)
                 /\ got.intensity
                        = Min(MoodOne, Abs(top.score) + Abs(second.score))
                 /\ got.intensity >= 0 /\ got.intensity <= MoodOne
                 /\ (top.score > 0 /\ second.score > 0)
                        => got.mood_name = second.mood \o <<"-">> \o top.mood
                 /\ (top.score < 0 /\ second.score < 0)
                        => got.mood_name = <<"c","o","n","f","l","i","c","t","e","d","-">> \o top.mood
                 /\ (top.score > 0 /\ second.score < 0)
                        => got.mood_name = <<"b","i","t","t","e","r","s","w","e","e","t","-">> \o top.mood
                 /\ (top.score < 0 /\ second.score > 0)
                        => got.mood_name = <<"b","i","t","t","e","r","s","w","e","e","t","-">> \o second.mood
            ELSE got.mood_name \notin HybridLabels(t)

\* Scores 0.40 and 0.33 gave the hybrid "{second}-{top}" with intensity 0.365.
C8_FortyAndThirtyThree ==
    /\ res.computed
    /\ arg.mood_scores = <<[mood |-> <<"c","h","e","e","r","f","u","l">>, score |-> ScoreOf(40)],
                           [mood |-> <<"a","n","x","i","o","u","s">>, score |-> ScoreOf(33)]>>
    /\ res.value.mood_name = <<"a","n","x","i","o","u","s","-","c","h","e","e","r","f","u","l">>
    /\ res.value.intensity = 365 * (MoodOne \div 1000)

\* A table with the scores of two positions exchanged
SwapScores(t, i, j) ==
    [k \in 1..Len(t) |->
        [mood |-> t[k].mood,
         score |-> IF k = i THEN t[j].score
                   ELSE IF k = j THEN t[i].score ELSE t[k].score]]

\* C9: exchanging the scores of the two moods that rank top, when their
\* |score| values are less than 0.15 apart, changes neither whether the
\* hybrid rule fires nor the hybrid intensity.
C9_HybridSymmetric ==
    (res.computed /\ TopTwoClose(arg.mood_scores)) =>
        LET t == arg.mood_scores
            swapped == SwapScores(t, TopIndex(t), SecondIndex(t))
            other == detect_undefined_mood_state(swapped, arg.hormone_levels)
        IN  /\ res.value.is_undefined /\ other.is_undefined
            /\ res.value.mood_name \in HybridLabels(t)
            /\ other.mood_name \in HybridLabels(t)
            /\ other.intensity = res.value.intensity

\* A hybrid was detected for two moods of opposite sign whose exchange
\* changes the composite name.
C9_SwapRenames ==
    /\ res.computed
    /\ TopTwoClose(arg.mood_scores)
    /\ LET t == arg.mood_scores
           swapped == SwapScores(t, TopIndex(t), SecondIndex(t))
       IN  /\ t[TopIndex(t)].score > 0
           /\ t[SecondIndex(t)].score < 0
           /\ detect_undefined_mood_state(swapped, arg.hormone_levels).mood_name
                  # res.value.mood_name

(***************************************************************************)
(* SpecInfer: infer_mood_from_hormones on hormone records and weight       *)
(* tables                                                                  *)
(***************************************************************************)
\* The levels tried for each hormone, in hundredths
LevelInputs == {10, 25, 30, 50, 60, 70, 75, 90}

\* A table whose top score leads: with dopamine and cortisol at 0.75 the
\* scores are 0.75 and 0.10
DominantTable == <<
    [mood |-> <<"e","x","c","i","t","e","d">>, weights |-> [dopamine |-> 8, cortisol |-> 2]],
    [mood |-> <<"s","e","r","e","n","e">>, weights |-> [serotonin |-> 8, cortisol |-> -4]] >>

\* A table of small weights
FlatTable == <<
    [mood |-> <<"c","a","l","m">>, weights |-> [dopamine |-> 2]],
    [mood |-> <<"b","l","a","n","k">>, weights |-> [oxytocin |-> 0]] >>

\* A table of one mood
SingleTable == <<
    [mood |-> <<"e","x","c","i","t","e","d">>, weights |-> [dopamine |-> 8, cortisol |-> 2]] >>

\* A table of one mood whose score is 0 when dopamine equals cortisol
BalancedTable == <<
    [mood |-> <<"s","t","i","l","l">>, weights |-> [dopamine |-> 5, cortisol |-> -5]] >>

WeightTables ==
    {DEFAULT_MOOD_WEIGHTS, DominantTable, FlatTable, SingleTable, BalancedTable}

InitInfer ==
    /\ hormonesFile = NoFile
    /\ weightsFile = NoFile
    /\ moodFile = NoFile
    /\ historyFile = NoFile
    /\ clock = 0
    /\ calls = 0
    /\ appended = << >>
    /\ last = Idle
    /\ procs = << >>
    /\ arg \in {[hormone_levels |-> [h \in HormoneNames |-> (l[h] * ONE) \div 100],
                 mood_weights |-> w] :
                  l \in [HormoneNames -> LevelInputs], w \in WeightTables}
    /\ res = NoResult

\* infer_mood_from_hormones(hormone_levels, mood_weights)
Infer ==
    /\ ~res.computed
    /\ \E v \in infer_mood_from_hormones(arg.hormone_levels, arg.mood_weights) :
           res' = Result(v)
    /\ UNCHANGED <<hormonesFile, weightsFile, moodFile, historyFile, clock,
                   calls, appended, last, procs, arg>>

NextInfer == Infer

SpecInfer == InitInfer /\ [][NextInfer]_vars

ManicEnergy == [mood |-> <<"m","a","n","i","c","-","e","n","e","r","g","y">>, intensity |-> 75 * (MoodOne \div 100)]

\* C10 as stated: with the record {dopamine 0.75, cortisol 0.75, serotonin
\* 0.5, oxytocin 0.5} and the shipped default weight table, inference returns
\* "manic-energy" with intensity 0.75.
C10_ManicWithDefaultTable ==
    (/\ res.computed
     /\ arg.hormone_levels = ManicRecord
     /\ arg.mood_weights = DEFAULT_MOOD_WEIGHTS)
    => res.value = ManicEnergy

\* C10 as amended: with that record inference returns "manic-energy" with
\* intensity 0.75 exactly when the table has at least two moods and neither
\* the hybrid rule nor the flat-affect rule fires, that is, when the top
\* |score| leads the second by at least 0.15 and is at least 0.2.  With the
\* shipped default table the hybrid rule fires first: "cheerful-excited",
\* intensity 0.7125.
C10_ManicWhenTopScoreLeads ==
    (res.computed /\ arg.hormone_levels = ManicRecord) =>
        LET t == calculate_mood_scores(arg.hormone_levels, arg.mood_weights)
            leads == /\ Len(t) >= 2
                     /\ ~TopTwoClose(t)
                     /\ Abs(t[TopIndex(t)].score) >= ScoreOf(20)
        IN  /\ res.value = ManicEnergy <=> leads
            /\ arg.mood_weights = DEFAULT_MOOD_WEIGHTS
                   => res.value = [mood |-> <<"c","h","e","e","r","f","u","l","-","e","x","c","i","t","e","d">>,
                                   intensity |-> 7125 * (MoodOne \div 10000)]

\* The archetype fired for that record: "manic-energy", 0.75.
C10_ManicReached ==
    /\ res.computed
    /\ arg.hormone_levels = ManicRecord
    /\ arg.mood_weights = DominantTable
    /\ res.value = ManicEnergy

(***************************************************************************)
(* SpecHormoneRace: two callers of adjust_hormones, no lock.  A step is a  *)
(* whole-document read or a whole-document write.                          *)
(***************************************************************************)
Callers == {1, 2}

\* The schedule so far, one [op, proc] per step
Step(op, p) == [op |-> op, proc |-> p]
StepIndex(op, p) == CHOOSE i \in 1..Len(last) : last[i] = Step(op, p)
Before(op1, p1, op2, p2) == StepIndex(op1, p1) < StepIndex(op2, p2)
AllDone == procs # << >> /\ \A p \in Callers : procs[p].pc = "done"
Other(p) == CHOOSE q \in Callers : q # p

InitHormoneRace ==
    /\ hormonesFile \in {NoFile, save_hormone_levels(DEFAULT_HORMONES),
                         Repeated(NoFile, "achievement", StartRuns)}
    /\ weightsFile = NoFile
    /\ moodFile = NoFile
    /\ historyFile = NoFile
    /\ clock = 0
    /\ calls = 0
    /\ appended = << >>
    /\ last = << >>
    /\ procs \in [Callers -> {[pc |-> "start", event |-> e, hormones |-> << >>] :
                                e \in Events}]
    /\ arg = hormonesFile
    /\ res = << >>

\* hormones = load_hormone_levels()
HormoneLoad(p) ==
    /\ procs[p].pc = "start"
    /\ procs' = [procs EXCEPT ![p].pc = "loaded",
                              ![p].hormones = load_hormone_levels(hormonesFile)]
    /\ hormonesFile' = ensure_file(hormonesFile, DEFAULT_HORMONES)
    /\ last' = Append(last, Step("load", p))
    /\ UNCHANGED <<weightsFile, moodFile, historyFile, clock, calls, appended,
                   arg, res>>

\* The save step with the record read again at the time of the write, as a
\* locked read-modify-write would
HormoneSaveReloading(p) ==
    /\ procs[p].pc = "loaded"
    /\ LET r == adjust_hormones(hormonesFile, procs[p].event)
       IN  /\ procs' = [procs EXCEPT ![p].pc = "done", ![p].hormones = r.ret]
           /\ hormonesFile' = r.file
    /\ last' = Append(last, Step("save", p))
    /\ UNCHANGED <<weightsFile, moodFile, historyFile, clock, calls, appended,
                   arg, res>>

\* The in-memory update of adjust_hormones on the record loaded earlier, and
\* save_hormone_levels(hormones)
HormoneSave(p) ==
    /\ procs[p].pc = "loaded"
    /\ LET hormones == natural_decay(
                           legacy_adjust(procs[p].hormones, procs[p].event))
       IN  /\ procs' = [procs EXCEPT ![p].pc = "done",
                                     ![p].hormones = hormones]
           /\ hormonesFile' = save_hormone_levels(hormones)
    /\ last' = Append(last, Step("save", p))
    /\ UNCHANGED <<weightsFile, moodFile, historyFile, clock, calls, appended,
                   arg, res>>

HormoneLoadStep == \E p \in Callers : HormoneLoad(p)

HormoneSaveStep == \E p \in Callers : HormoneSave(p)

NextHormoneRace == HormoneLoadStep \/ HormoneSaveStep

SpecHormoneRace == InitHormoneRace /\ [][NextHormoneRace]_vars

\* The caller that wrote last
LastWriter == last[Len(last)].proc

\* The record after event e1 then event e2, one call after the other
Serial(file, e1, e2) ==
    adjust_hormones(adjust_hormones(file, e1).file, e2).ret

\* C5: when the two read-modify-writes overlap (the last writer loaded before
\* the other saved) the persisted record is the last writer's adjustment of
\* the starting record alone: the other adjustment is lost.  When they do not
\* overlap it is the serial result.
C5_LastWriterWins ==
    AllDone =>
        LET w == LastWriter
            o == Other(w)
        IN  hormonesFile.data =
                IF Before("load", w, "save", o)
                THEN adjust_hormones(arg, procs[w].event).ret
                ELSE Serial(arg, procs[o].event, procs[w].event)

\* Both calls have returned and the persisted record is the result of neither
\* serial order: it holds one adjustment only.
C5_UpdateLost ==
    /\ AllDone
    /\ hormonesFile.data # Serial(arg, procs[1].event, procs[2].event)
    /\ hormonesFile.data # Serial(arg, procs[2].event, procs[1].event)
    /\ hormonesFile.data = adjust_hormones(arg, procs[LastWriter].event).ret
    /\ procs[1].event \in LegacyEvents
    /\ procs[2].event \in LegacyEvents

(***************************************************************************)
(* SpecMoodRace: two callers of update_mood, no lock                       *)
(***************************************************************************)
\* The documents after n sequential update_mood calls of SteadyInput from
\* nothing: call i reads the clock at 2i - 1 (last_updated) and 2i (timestamp)
AfterUpdates(n) ==
    LET context == get_mood_context(SteadyInput.mood, SteadyInput.intensity)
        entry(i) == history_entry(SteadyInput.mood, SteadyInput.intensity,
                                  SteadyInput.reason, context, 2 * i, NoFile)
        entries == [i \in 1..n |-> entry(i)]
    IN  IF n = 0
        THEN [moodFile |-> NoFile, historyFile |-> NoFile,
              hormonesFile |-> NoFile, clock |-> 0, appended |-> << >>]
        ELSE [moodFile |-> mood_snapshot(SteadyInput.mood,
                                         SteadyInput.intensity, context,
                                         2 * n - 1),
              historyFile |-> save_mood_history(entries),
              hormonesFile |-> NoFile, clock |-> 2 * n,
              appended |-> entries]

\* History lengths the race starts from: empty, short, and at the cap
PriorLengths == {0, 1, HISTORY_LIMIT - 1, HISTORY_LIMIT}

RaceInputs ==
    {[mood |-> <<"a","n","x","i","o","u","s">>, intensity |-> (7 * MoodOne) \div 10,
      reason |-> <<"m","a","n","u","a","l">>],
     [mood |-> <<"s","e","r","e","n","e">>, intensity |-> (3 * MoodOne) \div 10,
      reason |-> <<"c","o","n","t","e","x","t","u","a","l","_","a","n","a","l","y","s","i","s">>]}

InitMoodRace ==
    /\ \E n \in PriorLengths :
           LET s == AfterUpdates(n)
           IN  /\ hormonesFile = s.hormonesFile
               /\ moodFile = s.moodFile
               /\ historyFile = s.historyFile
               /\ clock = s.clock
               /\ appended = s.appended
    /\ weightsFile = NoFile
    /\ calls = 0
    /\ last = << >>
    /\ procs \in [Callers -> {[pc |-> "start", input |-> i, history |-> << >>,
                               entry |-> << >>] : i \in RaceInputs}]
    /\ arg = historyFile
    /\ res = << >>

\* update_mood up to the write of mood_adjustments.json
MoodWriteSnapshot(p) ==
    /\ procs[p].pc = "start"
    /\ LET input == procs[p].input
       IN  moodFile' = mood_snapshot(
                           input.mood, input.intensity,
                           get_mood_context(input.mood, input.intensity),
                           clock + 1)
    /\ clock' = clock + 1
    /\ procs' = [procs EXCEPT ![p].pc = "snapshot"]
    /\ last' = Append(last, Step("snapshot", p))
    /\ UNCHANGED <<hormonesFile, weightsFile, historyFile, calls, appended,
                   arg, res>>

\* history = load_mood_history(), the entry, the append and the trim
MoodLoadHistory(p) ==
    /\ procs[p].pc = "snapshot"
    /\ LET input == procs[p].input
           entry == history_entry(
                        input.mood, input.intensity, input.reason,
                        get_mood_context(input.mood, input.intensity),
                        clock + 1, hormonesFile)
       IN  /\ procs' = [procs EXCEPT
                  ![p].pc = "loaded",
                  ![p].entry = entry,
                  ![p].history =
                      append_and_trim(load_mood_history(historyFile), entry)]
           /\ hormonesFile' =
                  IF "hormone_snapshot" \in DOMAIN entry
                  THEN ensure_file(hormonesFile, DEFAULT_HORMONES)
                  ELSE hormonesFile
           /\ appended' = Append(appended, entry)
    /\ historyFile' = ensure_file(historyFile, << >>)
    /\ clock' = clock + 1
    /\ last' = Append(last, Step("load", p))
    /\ UNCHANGED <<weightsFile, moodFile, calls, arg, res>>

\* The save step with the history read again at the time of the write, as a
\* locked read-modify-write would
MoodSaveHistoryReloading(p) ==
    /\ procs[p].pc = "loaded"
    /\ historyFile' = save_mood_history(
           append_and_trim(load_mood_history(historyFile), procs[p].entry))
    /\ procs' = [procs EXCEPT ![p].pc = "done"]
    /\ last' = Append(last, Step("save", p))
    /\ UNCHANGED <<hormonesFile, weightsFile, moodFile, clock, calls, appended,
                   arg, res>>

\* save_mood_history(history)
MoodSaveHistory(p) ==
    /\ procs[p].pc = "loaded"
    /\ historyFile' = save_mood_history(procs[p].history)
    /\ procs' = [procs EXCEPT ![p].pc = "done"]
    /\ last' = Append(last, Step("save", p))
    /\ UNCHANGED <<hormonesFile, weightsFile, moodFile, clock, calls, appended,
                   arg, res>>

MoodWriteSnapshotStep == \E p \in Callers : MoodWriteSnapshot(p)

MoodLoadHistoryStep == \E p \in Callers : MoodLoadHistory(p)

MoodSaveHistoryStep == \E p \in Callers : MoodSaveHistory(p)

NextMoodRace ==
    \/ MoodWriteSnapshotStep
    \/ MoodLoadHistoryStep
    \/ MoodSaveHistoryStep

SpecMoodRace == InitMoodRace /\ [][NextMoodRace]_vars

\* The most recent HISTORY_LIMIT entries ever appended, in append order
RecentAppended == LastN(appended, Min(Len(appended), HISTORY_LIMIT))

\* C6: when the two read-modify-writes of the history overlap (the last
\* saver loaded before the other saved), the persisted history is the starting
\* history plus the last saver's entry only, so an appended entry is missing
\* and the history is not the most recent 100 appended entries; when they do
\* not overlap it is.  The live snapshot names the mood of whichever caller
\* wrote the snapshot last, which need not be the last history entry.
C6_HistoryRace ==
    AllDone =>
        LET w == LastWriter
            o == Other(w)
            s == IF Before("snapshot", 1, "snapshot", 2) THEN 2 ELSE 1
        IN  /\ moodFile.data.current_mood = procs[s].input.mood
            /\ IF Before("load", w, "save", o)
               THEN /\ historyFile.data =
                           append_and_trim(load_mood_history(arg),
                                           procs[w].entry)
                    /\ \A i \in 1..Len(historyFile.data) :
                           historyFile.data[i] # procs[o].entry
                    /\ historyFile.data # RecentAppended
               ELSE historyFile.data = RecentAppended

\* Both calls have returned; an entry appended among the last 100 is missing
\* from the persisted history, and the live snapshot names a mood that is not
\* the mood of the last history entry.
C6_EntryLostAndSnapshotStale ==
    /\ AllDone
    /\ historyFile.data # RecentAppended
    /\ \E i \in 1..Len(RecentAppended) :
           \A j \in 1..Len(historyFile.data) :
               historyFile.data[j] # RecentAppended[i]
    /\ moodFile.data.current_mood
           # historyFile.data[Len(historyFile.data)].mood
    /\ Len(historyFile.data) = HISTORY_LIMIT

(***************************************************************************)
(* Archetype cascade                                                       *)
(***************************************************************************)
\* Neither the hybrid rule nor the flat-affect rule fires for the scores of
\* a record under a table of at least two moods
ArchetypesTried(hormone_levels, mood_weights) ==
    LET t == calculate_mood_scores(hormone_levels, mood_weights)
    IN  /\ Len(t) >= 2
        /\ ~TopTwoClose(t)
        /\ Abs(t[TopIndex(t)].score) >= ScoreOf(20)

AllAbove(hormone_levels, n) ==
    \A h \in HormoneNames : hormone_levels[h] > (n * ONE) \div 100

\* C11: when neither the hybrid rule nor the flat-affect rule fires and all
\* four hormones are above 0.8, inference returns "overwhelmed" with
\* intensity 0.9.
C11_OverwhelmedWhenAllHigh ==
    (/\ res.computed
     /\ ArchetypesTried(arg.hormone_levels, arg.mood_weights)
     /\ AllAbove(arg.hormone_levels, 80))
    => res.value = [mood |-> <<"o","v","e","r","w","h","e","l","m","e","d">>,
                    intensity |-> 90 * (MoodOne \div 100)]

(***************************************************************************)
(* Operations under failing writes and unreadable documents                *)
(***************************************************************************)
Docs == {"hormones", "weights", "mood", "history"}

\* What an open(..., "w") / json.dump pair does to a document: writes it,
\* raises before touching it, or raises midway leaving it unparsable
WriteOutcomes == {"ok", "refused", "torn"}

\* The document after an attempted whole-document write
written(file, content, outcome) ==
    CASE outcome = "ok" -> [exists |-> TRUE, data |-> content]
      [] outcome = "refused" -> file
      [] OTHER -> Torn

\* _ensure_file with its write attempted under an outcome (the exception is
\* printed and swallowed)
try_ensure_file(file, default_data, outcome) ==
    IF file.exists THEN file ELSE written(file, default_data, outcome)

\* load_hormone_levels / load_mood_weights: the document after the ensure and
\* the dict returned (the defaults when the read raises)
try_load(file, default_data, outcome) ==
    LET ensured == try_ensure_file(file, default_data, outcome)
    IN  [file |-> ensured,
         ret |-> IF Parses(ensured) THEN ensured.data ELSE default_data]

\* load_mood_history: a missing document is created empty, an unreadable one
\* reads as the empty list
try_load_mood_history(file, outcome) ==
    IF ~file.exists
    THEN [file |-> written(file, << >>, outcome), ret |-> << >>]
    ELSE [file |-> file, ret |-> IF Parses(file) THEN file.data ELSE << >>]

\* The keys hormones[...] is subscripted with in each branch of
\* adjust_hormones
EventHormones(event) ==
    CASE event = "positive_feedback" -> {"dopamine", "serotonin"}
      [] event = "stress" -> {"cortisol", "serotonin"}
      [] event = "social_connection" -> {"oxytocin", "dopamine"}
      [] event = "isolation" -> {"oxytocin", "cortisol"}
      [] event = "achievement" -> {"dopamine", "serotonin"}
      [] event = "disappointment" -> {"dopamine", "serotonin"}
      [] OTHER -> {}

Raised(file, where) ==
    [file |-> file, raised |-> TRUE, in |-> where, ret |-> << >>]

\* adjust_hormones: a subscript of a key the loaded record lacks raises
\* KeyError; the save's exception is swallowed
try_adjust_hormones(file, event, outcome) ==
    LET loaded == try_load(file, DEFAULT_HORMONES, outcome)
    IN  IF ~(EventHormones(event) \subseteq DOMAIN loaded.ret)
        THEN Raised(loaded.file, "adjust_hormones")
        ELSE LET hormones == natural_decay(legacy_adjust(loaded.ret, event))
             IN  [file |-> written(loaded.file, hormones, outcome),
                  raised |-> FALSE, in |-> "", ret |-> hormones]

\* apply_contextual_hormone_adjustments, likewise
try_apply_contextual_hormone_adjustments(file, text, outcome) ==
    LET analysis == analyze_contextual_sentiment(text)
        loaded == try_load(file, DEFAULT_HORMONES, outcome)
    IN  IF DOMAIN analysis.hormone_adjustments = {}
        THEN [file |-> loaded.file, raised |-> FALSE, in |-> "",
              ret |-> loaded.ret]
        ELSE IF ~(DOMAIN analysis.hormone_adjustments \subseteq DOMAIN loaded.ret)
        THEN Raised(loaded.file, "apply_contextual_hormone_adjustments")
        ELSE LET hormones ==
                     contextual_decay(contextual_adjust(loaded.ret, analysis))
             IN  [file |-> written(loaded.file, hormones, outcome),
                  raised |-> FALSE, in |-> "", ret |-> hormones]

\* update_mood: the snapshot write, whose failure returns at once, then the
\* history load, append, cap and save, whose failure is printed only
try_update_mood(new_mood, intensity, reason, hormone_context, hormones, mood, history, now, outcomes) ==
    LET context == IF hormone_context = None
                   THEN get_mood_context(new_mood, intensity)
                   ELSE hormone_context
        mood_data == mood_snapshot(new_mood, intensity, context, now + 1).data
        loaded == try_load_mood_history(history, outcomes.history)
        snapshots == reason # << >>
                     /\ (Contains(reason, <<"c","o","n","t","e","x","t","u","a","l">>)
                         \/ Contains(reason, <<"h","o","r","m","o","n","e","_","e","v","e","n","t">>))
        levels == try_load(hormones, DEFAULT_HORMONES, outcomes.hormones)
        entry == history_entry(new_mood, intensity, reason, context, now + 2,
                               levels.file)
    IN  IF outcomes.mood # "ok"
        THEN [moodFile |-> written(mood, mood_data, outcomes.mood),
              historyFile |-> history, hormonesFile |-> hormones,
              logged |-> FALSE, clock |-> now + 1]
        ELSE [moodFile |-> written(mood, mood_data, outcomes.mood),
              historyFile |-> written(loaded.file,
                                      append_and_trim(loaded.ret, entry),
                                      outcomes.history),
              hormonesFile |-> IF snapshots THEN levels.file ELSE hormones,
              logged |-> TRUE, clock |-> now + 2]

\* update_mood_from_hormones: every outcome of the call.  With a table of no
\* moods sorted_moods[0] raises IndexError inside infer_mood_from_hormones.
try_update_mood_from_hormones(reason, hormones, weights, mood, history, now, outcomes) ==
    LET levels == try_load(hormones, DEFAULT_HORMONES, outcomes.hormones)
        table == try_load(weights, DEFAULT_MOOD_WEIGHTS, outcomes.weights)
    IN  IF Len(table.ret) = 0
        THEN {[hormonesFile |-> levels.file, weightsFile |-> table.file,
               moodFile |-> mood, historyFile |-> history, clock |-> now,
               raised |-> TRUE, in |-> "infer_mood_from_hormones",
               inferred_from |-> levels.ret, mood_weights |-> table.ret,
               ret |-> << >>]}
        ELSE {LET context == get_mood_context(m.mood, m.intensity)
                  u == try_update_mood(m.mood, m.intensity, reason, context,
                                       levels.file, mood, history, now,
                                       outcomes)
              IN  [hormonesFile |-> u.hormonesFile,
                   weightsFile |-> table.file,
                   moodFile |-> u.moodFile,
                   historyFile |-> u.historyFile,
                   clock |-> u.clock,
                   raised |-> FALSE, in |-> "",
                   inferred_from |-> levels.ret, mood_weights |-> table.ret,
                   ret |-> [mood |-> m.mood, intensity |-> m.intensity,
                            context |-> context]] :
              m \in infer_mood_from_hormones(levels.ret, table.ret)}

\* The event name as text, for f"hormone_event:{event}"
EventText(event) ==
    CASE event = "positive_feedback" -> <<"p","o","s","i","t","i","v","e","_","f","e","e","d","b","a","c","k">>
      [] event = "stress" -> <<"s","t","r","e","s","s">>
      [] event = "social_connection" -> <<"s","o","c","i","a","l","_","c","o","n","n","e","c","t","i","o","n">>
      [] event = "isolation" -> <<"i","s","o","l","a","t","i","o","n">>
      [] event = "achievement" -> <<"a","c","h","i","e","v","e","m","e","n","t">>
      [] event = "disappointment" -> <<"d","i","s","a","p","p","o","i","n","t","m","e","n","t">>
      [] event = "neutral_interaction" -> <<"n","e","u","t","r","a","l","_","i","n","t","e","r","a","c","t","i","o","n">>
      [] OTHER -> <<"u","n","k","n","o","w","n">>

(***************************************************************************)
(* SpecFaults: the callers' operations, one caller, writes that can fail   *)
(***************************************************************************)
MaxFaultCalls == 2

\* A hormone record that lacks oxytocin
PartialRecord == [dopamine |-> (60 * ONE) \div 100,
                  serotonin |-> (40 * ONE) \div 100,
                  cortisol |-> (70 * ONE) \div 100]

\* A weight table with no moods
EmptyTable == << >>

FaultEvents == {"stress", "social_connection", "neutral_interaction"}
FaultTexts == {<<"t","h","a","n","k","s">>, <<"o","k">>, <<"D","A","M","N"," ","B","A","D","!">>}

\* Per call every write succeeds, or the writes of one document fail
AllOk == [d \in Docs |-> "ok"]
Outcomes ==
    {AllOk} \cup {[AllOk EXCEPT ![d] = o] :
                     d \in Docs, o \in WriteOutcomes \ {"ok"}}

\* The arguments callers pass update_mood directly
DirectMoods == {[mood |-> <<"c","a","l","m">>, intensity |-> (3 * MoodOne) \div 10],
                [mood |-> <<"c","h","e","e","r","f","u","l">>, intensity |-> (9 * MoodOne) \div 10]}

NoCall == [op |-> "none", input |-> << >>, outcomes |-> AllOk,
           before |-> NoFile, new_hormones |-> << >>,
           inferred_from |-> << >>, mood_weights |-> << >>,
           raised |-> FALSE, in |-> "", ret |-> << >>]

InitFaults ==
    /\ hormonesFile \in {NoFile, Torn, save_hormone_levels(DEFAULT_HORMONES),
                         save_hormone_levels(PartialRecord)}
    /\ weightsFile \in {NoFile, Torn, [exists |-> TRUE, data |-> EmptyTable]}
    /\ moodFile = NoFile
    /\ historyFile \in {NoFile, Torn}
    /\ clock = 0
    /\ calls = 0
    /\ appended = << >>
    /\ last = NoCall
    /\ procs = << >>
    /\ arg = << >>
    /\ res = << >>

\* The hormone step of a caller's operation followed by
\* update_mood_from_hormones
AdjustThenUpdate(op, input, adjusted, reason, outcomes) ==
    IF adjusted.raised
    THEN /\ hormonesFile' = adjusted.file
         /\ last' = [NoCall EXCEPT !.op = op, !.input = input,
                                   !.outcomes = outcomes,
                                   !.before = hormonesFile,
                                   !.raised = TRUE, !.in = adjusted.in]
         /\ UNCHANGED <<weightsFile, moodFile, historyFile, clock>>
    ELSE \E u \in try_update_mood_from_hormones(reason, adjusted.file,
                      weightsFile, moodFile, historyFile, clock, outcomes) :
            /\ hormonesFile' = u.hormonesFile
            /\ weightsFile' = u.weightsFile
            /\ moodFile' = u.moodFile
            /\ historyFile' = u.historyFile
            /\ clock' = u.clock
            /\ last' = [op |-> op, input |-> input, outcomes |-> outcomes,
                        before |-> hormonesFile,
                        new_hormones |-> adjusted.ret,
                        inferred_from |-> u.inferred_from,
                        mood_weights |-> u.mood_weights,
                        raised |-> u.raised, in |-> u.in, ret |-> u.ret]

\* handle_event_and_update_mood(event)
HandleEventAndUpdateMood(event, outcomes) ==
    /\ AdjustThenUpdate("handle_event_and_update_mood", event,
           try_adjust_hormones(hormonesFile, event, outcomes.hormones),
           <<"h","o","r","m","o","n","e","_","e","v","e","n","t",":">> \o EventText(event), outcomes)
    /\ UNCHANGED <<appended, procs, arg, res>>

\* apply_sentiment_to_mood(conversation_text)
ApplySentimentToMood(text, outcomes) ==
    /\ AdjustThenUpdate("apply_sentiment_to_mood", text,
           try_apply_contextual_hormone_adjustments(hormonesFile, text,
                                                    outcomes.hormones),
           <<"c","o","n","t","e","x","t","u","a","l","_","a","n","a","l","y","s","i","s">>, outcomes)
    /\ UNCHANGED <<appended, procs, arg, res>>

\* update_mood(new_mood, intensity) called directly
DirectUpdateMood(input, outcomes) ==
    LET u == try_update_mood(input.mood, input.intensity, <<"m","a","n","u","a","l">>, None,
                             hormonesFile, moodFile, historyFile, clock,
                             outcomes)
    IN  /\ moodFile' = u.moodFile
        /\ historyFile' = u.historyFile
        /\ hormonesFile' = u.hormonesFile
        /\ clock' = u.clock
        /\ last' = [NoCall EXCEPT !.op = "update_mood", !.input = input,
                                  !.outcomes = outcomes,
                                  !.before = hormonesFile]
        /\ UNCHANGED <<weightsFile, appended, procs, arg, res>>

HandleEventCall ==
    /\ calls < MaxFaultCalls
    /\ calls' = calls + 1
    /\ \E event \in FaultEvents, outcomes \in Outcomes :
           HandleEventAndUpdateMood(event, outcomes)

ApplySentimentCall ==
    /\ calls < MaxFaultCalls
    /\ calls' = calls + 1
    /\ \E text \in FaultTexts, outcomes \in Outcomes :
           ApplySentimentToMood(text, outcomes)

DirectUpdateMoodCall ==
    /\ calls < MaxFaultCalls
    /\ calls' = calls + 1
    /\ \E input \in DirectMoods, outcomes \in Outcomes :
           DirectUpdateMood(input, outcomes)

NextFaults ==
    \/ HandleEventCall
    \/ ApplySentimentCall
    \/ DirectUpdateMoodCall

SpecFaults == InitFaults /\ [][NextFaults]_vars

\* C12: when the save of the hormone record fails during
\* handle_event_and_update_mood or apply_sentiment_to_mood, the mood and
\* intensity returned are ones inferred from the adjusted in-memory levels
\* (the record the hormone step returned), not from the levels on disk.
C12_ResultFromAdjustedLevels ==
    (/\ last.op \in {"handle_event_and_update_mood", "apply_sentiment_to_mood"}
     /\ last.outcomes.hormones # "ok"
     /\ ~last.raised)
    => [mood |-> last.ret.mood, intensity |-> last.ret.intensity]
           \in infer_mood_from_hormones(last.new_hormones, last.mood_weights)

\* C13: no error is escalated to a hard failure: whatever the persisted
\* documents hold (missing, unparsable, a hormone record lacking one of the
\* four hormones, a weight table with no moods), every operation returns a
\* result rather than raising.
C13_NoOperationRaises == ~last.raised

(***************************************************************************)
(* Legacy events                                                           *)
(***************************************************************************)
\* The deltas the six legacy events stand for, in hundredths
EventDelta(event, h) ==
    CASE event = "positive_feedback" /\ h = "dopamine" -> 10
      [] event = "positive_feedback" /\ h = "serotonin" -> 5
      [] event = "stress" /\ h = "cortisol" -> 10
      [] event = "stress" /\ h = "serotonin" -> -5
      [] event = "social_connection" /\ h = "oxytocin" -> 10
      [] event = "social_connection" /\ h = "dopamine" -> 5
      [] event = "isolation" /\ h = "oxytocin" -> -10
      [] event = "isolation" /\ h = "cortisol" -> 5
      [] event = "achievement" /\ h = "dopamine" -> 15
      [] event = "achievement" /\ h = "serotonin" -> 10
      [] event = "disappointment" /\ h = "dopamine" -> -10
      [] event = "disappointment" /\ h = "serotonin" -> -8
      [] OTHER -> 0

\* A level after one decay step: 0.01 toward 0.5, stopping at 0.5
DecayedOnce(level) ==
    IF level - (ONE \div 2) > ONE \div 100 THEN level - ONE \div 100
    ELSE IF (ONE \div 2) - level > ONE \div 100 THEN level + ONE \div 100
    ELSE ONE \div 2

\* C14: for a legacy event adjust_hormones applies that event's fixed deltas
\* (positive_feedback: dopamine +0.10, serotonin +0.05, ...) clamped to
\* [0, 1], then the decay step on every hormone, and persists and returns the
\* result; for an event outside the six no delta is applied, so every
\* hormone is as the decay step alone leaves it.
C14_LegacyEventDeltas ==
    last.op = "adjust_hormones" =>
        LET before == load_hormone_levels(last.before)
            event == last.input
        IN  /\ hormonesFile.exists
            /\ last.ret = hormonesFile.data
            /\ \A h \in HormoneNames :
                   hormonesFile.data[h]
                       = DecayedOnce(Max(0, Min(ONE,
                             before[h] + EventDelta(event, h) * (ONE \div 100))))
            /\ event \notin LegacyEvents =>
                   \A h \in HormoneNames :
                       hormonesFile.data[h] = DecayedOnce(before[h])

\* positive_feedback on the default record left dopamine 0.59 and serotonin
\* 0.54.
C14_PositiveFeedbackApplied ==
    /\ last.op = "adjust_hormones"
    /\ last.input = "positive_feedback"
    /\ load_hormone_levels(last.before) = DEFAULT_HORMONES
    /\ hormonesFile.data = [dopamine |-> 59 * (ONE \div 100),
                            serotonin |-> 54 * (ONE \div 100),
                            cortisol |-> ONE \div 2,
                            oxytocin |-> ONE \div 2]

(***************************************************************************)
(* Emergent variation                                                      *)
(***************************************************************************)
Tenths(n) == n * (ONE \div 10)

\* The candidate prefixes a record's threshold crossings give
Candidates(hormone_levels) ==
    LET level(h) == IF h \in DOMAIN hormone_levels
                    THEN hormone_levels[h] ELSE ONE \div 2
    IN  {p \in {<<"t","e","n","s","e">>, <<"r","e","l","a","x","e","d">>, <<"e","n","e","r","g","e","t","i","c">>, <<"l","e","t","h","a","r","g","i","c">>,
                <<"w","a","r","m">>, <<"d","i","s","t","a","n","t">>, <<"b","a","l","a","n","c","e","d">>, <<"u","n","s","t","a","b","l","e">>} :
            \/ p = <<"t","e","n","s","e">> /\ level("cortisol") > Tenths(6)
            \/ p = <<"r","e","l","a","x","e","d">> /\ level("cortisol") < Tenths(3)
            \/ p = <<"e","n","e","r","g","e","t","i","c">> /\ level("dopamine") > Tenths(7)
            \/ p = <<"l","e","t","h","a","r","g","i","c">> /\ level("dopamine") < Tenths(3)
            \/ p = <<"w","a","r","m">> /\ level("oxytocin") > Tenths(7)
            \/ p = <<"d","i","s","t","a","n","t">> /\ level("oxytocin") < Tenths(3)
            \/ p = <<"b","a","l","a","n","c","e","d">> /\ level("serotonin") > Tenths(7)
            \/ p = <<"u","n","s","t","a","b","l","e">> /\ level("serotonin") < Tenths(3)}

\* All four hormones lie in their neutral bands
InNeutralBands(hormone_levels) ==
    /\ hormone_levels.cortisol >= Tenths(3)
    /\ hormone_levels.cortisol <= Tenths(6)
    /\ \A h \in {"dopamine", "oxytocin", "serotonin"} :
           hormone_levels[h] >= Tenths(3) /\ hormone_levels[h] <= Tenths(7)

\* C15: a hybrid, flat-affect or archetype label is returned exactly as the
\* detection produced it; a defined result's label is the base mood or
\* "{prefix}-{base}" with the prefix one of the candidates the hormone
\* thresholds give, of which there is at most one per hormone and none when
\* all four hormones lie in their neutral bands.  (The base mood of a table
\* whose scores are all 0 is left to C17.)
C15_VariationOnlyOnDefined ==
    res.computed =>
        LET levels == arg.hormone_levels
            t == calculate_mood_scores(levels, arg.mood_weights)
            state == detect_undefined_mood_state(t, levels)
            base == t[TopIndex(t)].mood
            prefixes == emergent_prefixes(levels)
        IN  /\ state.is_undefined => res.value.mood = state.mood_name
            /\ (~state.is_undefined /\ t[TopIndex(t)].score # 0) =>
                   \/ res.value.mood = base
                   \/ \E p \in Candidates(levels) :
                          res.value.mood = p \o <<"-">> \o base
            /\ SeqRange(prefixes) = Candidates(levels)
            /\ Len(prefixes) = Cardinality(Candidates(levels))
            /\ Len(prefixes) <= Cardinality(HormoneNames)
            /\ InNeutralBands(levels) => prefixes = << >>

\* A defined result came back carrying a candidate prefix.
C15_PrefixedDefinedMood ==
    /\ res.computed
    /\ arg.mood_weights = DominantTable
    /\ ~detect_undefined_mood_state(
            calculate_mood_scores(arg.hormone_levels, arg.mood_weights),
            arg.hormone_levels).is_undefined
    /\ res.value.mood = <<"w","a","r","m","-","e","x","c","i","t","e","d">>

(***************************************************************************)
(* Context flags                                                           *)
(***************************************************************************)
\* C16: for every mood update_mood_from_hormones produces with the default
\* weight table, the recorded is_hybrid flag is true exactly when the hybrid
\* rule produced the label, and is_emergent is true exactly when the
\* flat-affect rule or an archetype rule produced it.
C16_FlagsAgreeWithRule ==
    (last.op = "simulate_hormone_fluctuation"
     /\ load_mood_weights(weightsFile) = DEFAULT_MOOD_WEIGHTS) =>
        LET levels == load_hormone_levels(hormonesFile)
            t == calculate_mood_scores(levels, DEFAULT_MOOD_WEIGHTS)
            hybrid == TopTwoClose(t)
            state == detect_undefined_mood_state(t, levels)
            context == moodFile.data.context
        IN  /\ last.ret.context = context
            /\ context.is_hybrid <=> hybrid
            /\ context.is_emergent <=> (~hybrid /\ state.is_undefined)

(***************************************************************************)
(* Tables of one mood                                                      *)
(***************************************************************************)
\* C17: with a weight table of exactly one mood, for every hormone record
\* the result's label is that mood, alone or behind a candidate prefix, and
\* its intensity is |score| clamped to [0, 1], a score of 0 included.
C17_SingleMoodIsDefined ==
    (res.computed /\ Len(arg.mood_weights) = 1) =>
        LET t == calculate_mood_scores(arg.hormone_levels, arg.mood_weights)
            only == t[1]
            magnitude == IF only.score < 0 THEN -only.score ELSE only.score
        IN  /\ \/ res.value.mood = only.mood
               \/ \E p \in Candidates(arg.hormone_levels) :
                      res.value.mood = p \o <<"-">> \o only.mood
            /\ res.value.intensity
                   = (IF magnitude > ScoreOne THEN MoodOne ELSE 2 * magnitude)

(***************************************************************************)
(* Snapshot and history                                                    *)
(***************************************************************************)
\* C18: after any sequence of sequential update_mood calls, calls in which a
\* document write fails included, the last entry of the persisted history
\* has the mood and the intensity of the persisted live snapshot.
C18_SnapshotMatchesLastEntry ==
    Parses(moodFile) =>
        /\ Parses(historyFile)
        /\ Len(historyFile.data) > 0
        /\ LET newest == historyFile.data[Len(historyFile.data)]
           IN  /\ newest.mood = moodFile.data.current_mood
               /\ newest.intensity = moodFile.data.intensity

====
